---- MODULE Spec2Model ----
(***************************************************************************)
(* A model of the to-do REST service of src/src/main.rs: the process       *)
(* (main), the database file data.sqlite with its table todo_list, and the *)
(* four Rocket handlers index, fetch_all_todo_items, add_todo_item and     *)
(* remove_todo_item, each running on its own worker with its own SQLite    *)
(* connection.  The workers are interchangeable, so the requests in flight *)
(* are kept as a bag.                                                      *)
(*                                                                         *)
(* Every SQL statement of the program is one autocommit statement; SQLite  *)
(* executes such a statement atomically and serialises writers on the file *)
(* lock, so one statement is one step here.  Requests interleave between   *)
(* the opening of their connection and their statement.                    *)
(***************************************************************************)
EXTENDS Bags, FiniteSets, Integers, Sequences, TLC

VARIABLES
    proc,      \* where the process is: stopped, in main, or serving
    db,        \* data.sqlite: the file, the table todo_list and its rows
    conns,     \* the open connections: that of main, and how many of handlers
    req,       \* the bag of the requests in flight, their connection open
    last,      \* the exchange completed last: the request and its result
    inserted,  \* history: the number of POST requests answered with Ok
    removed    \* history: the ids whose row a DELETE removed

vars == <<proc, db, conns, req, last, inserted, removed>>

(* ------------------------------ bounds --------------------------------- *)

\* workers: the requests that run at the same time
MaxReq == 2

\* successful and running POST requests in one behaviour
MaxPosts == 2

\* declared width of the item column: item varchar(64)
ItemWidth == 64

\* DELETE /todo/<id> is issued for 0 and for the ids a POST can be given
DelIds == 0..MaxPosts

\* the string made of n copies of the character c
Rep(c, n) == [i \in 1..n |-> c]

\* lengths of the POST bodies: exactly the declared width, and one more
BodyLens == {ItemWidth, ItemWidth + 1}

Bodies == {Rep("a", n) : n \in BodyLens}

(* --------------------------- SQLite values ----------------------------- *)

\* rusqlite's ToSql for String: a TEXT value holding the string
ToSqlString(s) == [t |-> "text", v |-> s]

\* rusqlite's ToSql for i64: an INTEGER value
ToSqlI64(n) == [t |-> "integer", v |-> n]

BlobValue == [t |-> "blob", v |-> <<>>]

\* a faulty variant: a column that cuts the stored text at its declared width
AffinityTruncating(cell) ==
    IF cell.t = "text" /\ Len(cell.v) > ItemWidth
    THEN [t |-> "text", v |-> SubSeq(cell.v, 1, ItemWidth)]
    ELSE cell

\* the TEXT affinity of a varchar(64) column: text, blob and null are stored
\* as they are (the declared width is not applied), a number becomes text
Affinity(cell) ==
    IF cell.t = "integer"
    THEN [t |-> "text", v |-> <<ToString(cell.v)>>]
    ELSE cell

\* rusqlite's FromSql for i64 and for String: only the matching storage
\* class converts
FromSqlI64(cell) == cell.t = "integer"

FromSqlString(cell) == cell.t = "text"

(* ------------------------------ the table ------------------------------ *)

Ids(rows) == {row.id : row \in rows}

MaxOf(S) == CHOOSE m \in S : \A n \in S : n <= m

MinOf(S) == CHOOSE m \in S : \A n \in S : m <= n

\* a faulty variant: the largest rowid is taken as it is
NextRowidNoIncrement(rows) == IF rows = {} THEN 1 ELSE MaxOf(Ids(rows))

\* id integer primary key, inserted as null: the largest rowid plus one,
\* 1 in an empty table
NextRowid(rows) == IF rows = {} THEN 1 ELSE MaxOf(Ids(rows)) + 1

\* Connection::open("data.sqlite"): creates the file when it is missing
OpenFile(d) == [d EXCEPT !.file = "present"]

\* a faulty variant: the table is created anew at every start
CreateTableFresh(d) == [d EXCEPT !.table = TRUE, !.rows = {}]

\* create table if not exists todo_list (...)
CreateTableIfNotExists(d) ==
    IF d.table THEN d ELSE [d EXCEPT !.table = TRUE, !.rows = {}]

\* insert into todo_list (id, item) values (null, $1); item is not null
InsertAllowed(cell) == cell.t # "null"

InsertRow(rows, cell) ==
    rows \cup {[id |-> NextRowid(rows), item |-> Affinity(cell)]}

\* delete from todo_list where id = $1
DeleteRows(rows, id) == {row \in rows : row.id # id}

\* a faulty variant: a failed statement leaves a row behind
RollbackPartial(rows) == rows \cup {[id |-> NextRowid(rows), item |-> BlobValue]}

\* a statement that fails is rolled back: the table is as it was
Rollback(rows) == rows

RECURSIVE SortById(_)
SortById(rows) ==
    IF rows = {} THEN <<>>
    ELSE LET first == CHOOSE row \in rows : row.id = MinOf(Ids(rows))
         IN  <<first>> \o SortById(rows \ {first})

\* a faulty variant: the last row of the table is not read
SelectAllButLast(rows) ==
    LET s == SortById(rows) IN IF s = <<>> THEN s ELSE SubSeq(s, 1, Len(s) - 1)

\* select id, item from todo_list: the rows in rowid order; column 0 is the
\* rowid as an INTEGER value, column 1 the stored item
SelectAll(rows) == SortById(rows)

(* ------------------------------ handlers ------------------------------- *)

\* the values a handler returns: struct ToDoList, struct StatusMessage, and
\* a plain string
ToDoList(items) == [type |-> "ToDoList", text |-> "", items |-> items]

StatusMessage(message) == [type |-> "StatusMessage", text |-> message, items |-> <<>>]

Text(string) == [type |-> "String", text |-> string, items |-> <<>>]

Ok(val) == [ok |-> TRUE, val |-> val]

Err(msg) == [ok |-> FALSE, val |-> Text(msg)]

\* the closure of query_map: Ok(ToDoItem { id: row.get(0)?, item: row.get(1)? })
RowMaps(row) == FromSqlI64(ToSqlI64(row.id)) /\ FromSqlString(row.item)

MapRow(row) == [id |-> row.id, item |-> row.item.v]

\* a faulty variant: rows that do not map are left out of the list
RECURSIVE CollectSkipping(_)
CollectSkipping(rs) ==
    IF rs = <<>> THEN Ok(<<>>)
    ELSE LET rest == CollectSkipping(Tail(rs))
         IN  IF RowMaps(Head(rs)) THEN Ok(<<MapRow(Head(rs))>> \o rest.val)
             ELSE rest

\* rows.collect() into rusqlite::Result<Vec<ToDoItem>>: the first row that
\* fails to map ends the iteration with its error
RECURSIVE Collect(_)
Collect(rs) ==
    IF rs = <<>> THEN Ok(<<>>)
    ELSE IF ~RowMaps(Head(rs)) THEN [ok |-> FALSE, val |-> <<>>]
    ELSE LET rest == Collect(Tail(rs))
         IN  IF rest.ok THEN Ok(<<MapRow(Head(rs))>> \o rest.val) ELSE rest

FetchResult(rows) ==
    LET collection == Collect(SelectAll(rows))
    IN  IF collection.ok THEN Ok(ToDoList(collection.val))
        ELSE Err("Could not collect items")

AddResult(rows_added) ==
    Ok(StatusMessage(ToString(rows_added) \o " rows inserted!"))

\* a faulty variant: deleting nothing is reported as an error
RemoveResultNotFound(rows_deleted) ==
    IF rows_deleted = 0 THEN Err("Failed to delete ToDo Item")
    ELSE Ok(StatusMessage(ToString(rows_deleted) \o " rows deleted"))

RemoveResult(rows_deleted) ==
    Ok(StatusMessage(ToString(rows_deleted) \o " rows deleted"))

ExecuteError(kind) ==
    CASE kind = "get" -> Err("Could not collect items")
      [] kind = "post" -> Err("Failed to insert ToDo Item")
      [] kind = "delete" -> Err("Failed to delete ToDo Item")

\* Rocket's Responder for &str and String: 200 text/plain
RespondString(text) ==
    [status |-> 200, content_type |-> "text/plain", body |-> text]

\* rocket_contrib's Responder for Json<T>: 200 application/json
RespondJson(val) ==
    [status |-> 200, content_type |-> "application/json", body |-> val]

\* Rocket's Responder for Result<Json<T>, String>: Ok and Err both answer
\* with the responder they wrap
Respond(result) ==
    IF result.ok THEN RespondJson(result.val) ELSE RespondString(result.val)

\* what a request carries: the id of the path and the string of the body
NoArg == [id |-> 0, body |-> <<>>]

Request(kind, arg) == [kind |-> kind, arg |-> arg]

NoExchange == [kind |-> "none", arg |-> NoArg, fault |-> "none", result |-> Ok(Text(""))]

Exchange(kind, arg, fault, result) ==
    [kind |-> kind, arg |-> arg, fault |-> fault, result |-> result]

\* the HTTP response of an exchange
Response(x) ==
    IF x.kind = "index" THEN RespondString(x.result.val.text) ELSE Respond(x.result)

Args(kind) ==
    CASE kind = "get" -> {NoArg}
      [] kind = "post" -> {[id |-> 0, body |-> s] : s \in Bodies}
      [] kind = "delete" -> {[id |-> i, body |-> <<>>] : i \in DelIds}

One(x) == SetToBag({x})

InFlight == BagCardinality(req)

\* the number of requests of a kind in flight
Running(kind) ==
    BagCardinality([x \in {y \in BagToSet(req) : y.kind = kind} |-> req[x]])

NoConns == [main |-> FALSE, handlers |-> 0]

(* ------------------------------- main ---------------------------------- *)

Start ==
    /\ proc = "stopped"
    /\ proc' = "open"
    /\ UNCHANGED <<db, conns, req, last, inserted, removed>>

\* let db_connection = Connection::open("data.sqlite").unwrap();
MainOpen ==
    /\ proc = "open"
    /\ \/ /\ db' = OpenFile(db)
          /\ conns' = [conns EXCEPT !.main = TRUE]
          /\ proc' = "create"
       \/ /\ proc' = "stopped"
          /\ UNCHANGED <<db, conns>>
    /\ UNCHANGED <<req, last, inserted, removed>>

\* db_connection.execute("create table if not exists ...").unwrap();
MainCreate ==
    /\ proc = "create"
    /\ \/ /\ db' = CreateTableIfNotExists(db)
          /\ proc' = "drop"
          /\ UNCHANGED conns
       \/ /\ proc' = "stopped"
          /\ conns' = [conns EXCEPT !.main = FALSE]
          /\ UNCHANGED db
    /\ UNCHANGED <<req, last, inserted, removed>>

\* the end of the block: db_connection is dropped
MainDrop ==
    /\ proc = "drop"
    /\ conns' = [conns EXCEPT !.main = FALSE]
    /\ proc' = "ignite"
    /\ UNCHANGED <<db, req, last, inserted, removed>>

\* rocket::ignite().mount(...).launch(): serves, or fails to bind and ends
Launch ==
    /\ proc = "ignite"
    /\ proc' \in {"serving", "stopped"}
    /\ UNCHANGED <<db, conns, req, last, inserted, removed>>

\* the process is ended from outside; the requests in flight get no answer
Kill ==
    /\ proc # "stopped"
    /\ proc' = "stopped"
    /\ conns' = NoConns
    /\ req' = EmptyBag
    /\ UNCHANGED <<db, last, inserted, removed>>

(* ------------------------------ requests ------------------------------- *)

\* a request is dispatched to a free worker
Arrives == proc = "serving" /\ InFlight < MaxReq

\* GET /
index ==
    /\ Arrives
    /\ last' = Exchange("index", NoArg, "none", Ok(Text("Hello, world!")))
    /\ UNCHANGED <<proc, db, conns, req, inserted, removed>>

\* the first statement of the three database handlers:
\* match Connection::open("data.sqlite")
Connect(kind, arg) ==
    /\ Arrives
    /\ kind = "post" => inserted + Running("post") < MaxPosts
    /\ \/ /\ req' = req (+) One(Request(kind, arg))
          /\ conns' = [conns EXCEPT !.handlers = @ + 1]
          /\ db' = OpenFile(db)
          /\ UNCHANGED last
       \/ /\ last' = Exchange(kind, arg, "connect", Err("Failed to connect to database"))
          /\ UNCHANGED <<conns, db, req>>
    /\ UNCHANGED <<proc, inserted, removed>>

Opened(x, kind) == proc = "serving" /\ BagIn(x, req) /\ x.kind = kind

\* the handler returns: its connection is dropped and the worker is free
Return(x, fault, result) ==
    /\ last' = Exchange(x.kind, x.arg, fault, result)
    /\ req' = req (-) One(x)
    /\ conns' = [conns EXCEPT !.handlers = @ - 1]
    /\ UNCHANGED proc

\* db_connection.prepare(...) fails
PrepareFails(x) ==
    /\ Return(x, "prepare", Err("Failed to prepare a query"))
    /\ UNCHANGED <<db, inserted, removed>>

\* the statement fails when it is run and is rolled back
ExecuteFails(x) ==
    /\ db.table
    /\ Return(x, "execute", ExecuteError(x.kind))
    /\ db' = [db EXCEPT !.rows = Rollback(db.rows)]
    /\ UNCHANGED <<inserted, removed>>

\* GET /todo, after the connection is open
fetch_all_todo_items(x) ==
    /\ Opened(x, "get")
    /\ \/ PrepareFails(x)
       \/ ExecuteFails(x)
       \/ /\ db.table
          /\ LET result == FetchResult(db.rows)
             IN  Return(x, IF result.ok THEN "none" ELSE "execute", result)
          /\ UNCHANGED <<db, inserted, removed>>

\* POST /todo, after the connection is open
add_todo_item(x) ==
    /\ Opened(x, "post")
    /\ \/ PrepareFails(x)
       \/ ExecuteFails(x)
       \/ /\ db.table
          /\ InsertAllowed(ToSqlString(x.arg.body))
          /\ db' = [db EXCEPT !.rows = InsertRow(db.rows, ToSqlString(x.arg.body))]
          /\ Return(x, "none",
                    AddResult(Cardinality(InsertRow(db.rows, ToSqlString(x.arg.body)))
                              - Cardinality(db.rows)))
          /\ inserted' = inserted + 1
          /\ UNCHANGED removed

\* DELETE /todo/<id>, after the connection is open
remove_todo_item(x) ==
    /\ Opened(x, "delete")
    /\ \/ PrepareFails(x)
       \/ ExecuteFails(x)
       \/ /\ db.table
          /\ db' = [db EXCEPT !.rows = DeleteRows(db.rows, x.arg.id)]
          /\ Return(x, "none",
                    RemoveResult(Cardinality(db.rows)
                                 - Cardinality(DeleteRows(db.rows, x.arg.id))))
          /\ removed' = removed \cup (Ids(db.rows) \ Ids(DeleteRows(db.rows, x.arg.id)))
          /\ UNCHANGED inserted

Next ==
    \/ Start
    \/ MainOpen
    \/ MainCreate
    \/ MainDrop
    \/ Launch
    \/ Kill
    \/ index
    \/ \E kind \in {"get", "post", "delete"} : \E arg \in Args(kind) : Connect(kind, arg)
    \/ \E x \in BagToSet(req) : fetch_all_todo_items(x)
    \/ \E x \in BagToSet(req) : add_todo_item(x)
    \/ \E x \in BagToSet(req) : remove_todo_item(x)

Fresh ==
    /\ proc = "stopped"
    /\ conns = NoConns
    /\ req = EmptyBag
    /\ last = NoExchange
    /\ inserted = 0
    /\ removed = {}

\* the first start: there is no database file
Init ==
    /\ Fresh
    /\ db = [file |-> "absent", table |-> FALSE, rows |-> {}]

Spec == Init /\ [][Next]_vars

\* a database file written before the first start by another program with
\* the same schema: the item of its second row is stored as a blob
ForeignRows ==
    {[id |-> 1, item |-> ToSqlString(Rep("a", 0))], [id |-> 2, item |-> BlobValue]}

InitForeign ==
    /\ Fresh
    /\ db = [file |-> "present", table |-> TRUE, rows |-> ForeignRows]

SpecForeign == InitForeign /\ [][Next]_vars

TypeOK ==
    /\ proc \in {"stopped", "open", "create", "drop", "ignite", "serving"}
    /\ db.file \in {"absent", "present"}
    /\ db.table \in BOOLEAN
    /\ conns.main \in BOOLEAN
    /\ conns.handlers = InFlight
    /\ InFlight <= MaxReq
    /\ inserted \in 0..MaxPosts

(* ----------------------------- properties ------------------------------ *)

\* the request x in flight is answered in this step
Returns(x, kind) ==
    /\ proc' = "serving"
    /\ BagIn(x, req)
    /\ x.kind = kind
    /\ req' = req (-) One(x)

\* some request is answered in this step
Completes ==
    \/ last' # last
    \/ proc' = "serving" /\ BagCardinality(req') < BagCardinality(req)

\* a request of this kind gets its connection in this step
Connects(kind) == \E arg \in Args(kind) : req' = req (+) One(Request(kind, arg))

ItemsOf(x) == x.result.val.items

ItemIds(items) == {items[i].id : i \in 1..Len(items)}

\* C1: concurrent POST requests get distinct ids and none is lost or
\* duplicated: a successful POST adds exactly one row, with its body and an
\* id no row has; while no row was deleted the table holds as many rows,
\* with as many ids, as POST requests succeeded; and a GET then returns that
\* many entries with distinct ids.
C1_DistinctIdsNoLostInsert ==
    [][/\ \A x \in BagToSet(req) : (Returns(x, "post") /\ last'.result.ok) =>
             \E row \in db'.rows :
                /\ row.id \notin Ids(db.rows)
                /\ row.item = ToSqlString(x.arg.body)
                /\ db'.rows = db.rows \cup {row}
                /\ Cardinality(db'.rows) = Cardinality(db.rows) + 1
       /\ removed' = {} =>
             /\ Cardinality(db'.rows) = inserted'
             /\ Cardinality(Ids(db'.rows)) = inserted'
       /\ \A x \in BagToSet(req) : (Returns(x, "get") /\ last'.result.ok /\ removed = {}) =>
             /\ Len(ItemsOf(last')) = inserted
             /\ Cardinality(ItemIds(ItemsOf(last'))) = inserted
      ]_vars

\* two POST requests succeeded, nothing was deleted, and a GET has returned
\* the two entries
C1_Witness ==
    /\ inserted = 2
    /\ removed = {}
    /\ last.kind = "get"
    /\ last.result.ok
    /\ Len(ItemsOf(last)) = 2

\* C2: from an empty table, a successful POST with body s followed by a
\* successful GET yields exactly one item, whose item is s and whose id is
\* positive; every successful POST reports "1 rows inserted!".
C2_PostThenGet ==
    [][/\ \A x \in BagToSet(req) : (Returns(x, "post") /\ last'.result.ok) =>
             last'.result = Ok(StatusMessage("1 rows inserted!"))
       /\ \A x \in BagToSet(req) :
             ( /\ Returns(x, "get")
               /\ last'.result.ok
               /\ last.kind = "post"
               /\ last.result.ok
               /\ inserted = 1
               /\ removed = {} ) =>
             /\ Len(ItemsOf(last')) = 1
             /\ ItemsOf(last')[1].item = last.arg.body
             /\ ItemsOf(last')[1].id > 0
      ]_vars

\* the only POST so far carried a body longer than the declared width, and
\* the GET after it has returned one item
C2_Witness ==
    /\ inserted = 1
    /\ removed = {}
    /\ last.kind = "get"
    /\ last.result.ok
    /\ Len(ItemsOf(last)) = 1
    /\ Len(ItemsOf(last)[1].item) = ItemWidth + 1

\* C3: once a DELETE has removed the row of an id, no later successful GET
\* contains that id, whatever requests ran in between; and the DELETE removes
\* only the row with that id.
C3_DeletedIdStaysGone ==
    [][/\ \A x \in BagToSet(req) : (Returns(x, "get") /\ last'.result.ok) =>
             ItemIds(ItemsOf(last')) \cap removed = {}
       /\ \A x \in BagToSet(req) : (Returns(x, "delete") /\ last'.result.ok) =>
             db'.rows = {row \in db.rows : row.id # x.arg.id}
      ]_vars

\* C4: a DELETE whose statement runs and whose id matches no row is answered
\* with the success response "0 rows deleted", and the table is unchanged.
C4_DeleteMissingIsSuccess ==
    [][\A x \in BagToSet(req) :
          ( /\ Returns(x, "delete")
            /\ last'.fault = "none"
            /\ x.arg.id \notin Ids(db.rows) ) =>
          /\ last'.result = Ok(StatusMessage("0 rows deleted"))
          /\ Response(last') = RespondJson(StatusMessage("0 rows deleted"))
          /\ db' = db
      ]_vars

\* a DELETE for an id without a row has been answered "0 rows deleted"
\* while the table holds other rows
C4_Witness ==
    /\ last.kind = "delete"
    /\ last.result = Ok(StatusMessage("0 rows deleted"))
    /\ last.arg.id \notin Ids(db.rows)
    /\ db.rows # {}

\* C5: every row has a non-null id that no other row has and a non-null
\* item of at most 64 characters.
C5_RowsWithinSchema ==
    \A row \in db.rows :
        /\ \A other \in db.rows : other.id = row.id => other = row
        /\ row.item.t # "null"
        /\ Len(row.item.v) <= ItemWidth

\* C6: a connection, preparation or execution failure is answered with a
\* plain string and a status that is not 200.
C6_ErrorsAreNot200 ==
    last.fault # "none" =>
        /\ Response(last).body.type = "String"
        /\ Response(last).status # 200

\* C7: GET /todo is all-or-nothing: when a row of the table does not map to
\* a ToDoItem the answer is an error message without items, and an answer
\* with an items list carries every row of the table.
C7_FetchAllOrNothing ==
    [][\A x \in BagToSet(req) : (Returns(x, "get") /\ last'.fault # "prepare") =>
          /\ (\E row \in db.rows : row.item.t # "text") =>
                /\ ~last'.result.ok
                /\ last'.result.val.type = "String"
                /\ last'.result.val.items = <<>>
          /\ last'.result.ok =>
                /\ Len(ItemsOf(last')) = Cardinality(db.rows)
                /\ ItemIds(ItemsOf(last')) = Ids(db.rows)
      ]_vars

\* a GET has failed on a table that holds a row that maps and, after it in
\* rowid order, one that does not
C7_Witness ==
    /\ last.kind = "get"
    /\ last.result = Err("Could not collect items")
    /\ \E x, y \in db.rows : x.id < y.id /\ x.item.t = "text" /\ y.item.t = "blob"

\* C8: a successful GET /todo returns exactly the rows of the table, one
\* entry per row with its id and item, hence the empty list on an empty
\* table; GET /todo and GET / never change the table.
C8_FetchReturnsTable ==
    [][/\ \A x \in BagToSet(req) : (Returns(x, "get") /\ last'.result.ok) =>
             /\ Len(ItemsOf(last')) = Cardinality(db.rows)
             /\ \A row \in db.rows : \E i \in 1..Len(ItemsOf(last')) :
                   ItemsOf(last')[i] = [id |-> row.id, item |-> row.item.v]
             /\ db.rows = {} => ItemsOf(last') = <<>>
       /\ \A x \in BagToSet(req) : Returns(x, "get") => db' = db
       /\ Connects("get") => db' = db
       /\ (last' # last /\ last'.kind \in {"index", "get"}) => db' = db
      ]_vars

\* after a DELETE removed a row, a GET has returned the one row left
C8_Witness ==
    /\ last.kind = "get"
    /\ last.result.ok
    /\ removed # {}
    /\ Len(ItemsOf(last)) = 1
    /\ Cardinality(db.rows) = 1

\* C9: schema creation is idempotent: the create statement of main makes an
\* empty table when there is none and changes nothing when there is one, no
\* other step of main touches the table, and the connection of main is
\* closed before a request is handled.
C9_SchemaCreationIdempotent ==
    /\ [](/\ proc \in {"ignite", "serving"} => ~conns.main
          /\ InFlight > 0 => (proc = "serving" /\ ~conns.main))
    /\ [][/\ (proc = "create" /\ proc' = "drop") =>
                IF db.table THEN db' = db
                ELSE db'.table /\ db'.rows = {}
          /\ (proc # "serving" /\ db.table) => db' = db
         ]_vars

\* a later start has run its create statement on the table, with its rows,
\* that an earlier run of the service left
C9_Witness ==
    /\ proc = "drop"
    /\ db.table
    /\ db.rows # {}

\* C10: a request that ends in an error response leaves the table as it
\* was, and takes nothing but itself from the requests in flight; opening
\* a connection changes neither the table nor an answer.
C10_FailureIsConfined ==
    [][/\ (Completes /\ ~last'.result.ok) =>
             /\ db' = db
             /\ inserted' = inserted
             /\ removed' = removed
             /\ \/ req' = req
                \/ \E x \in BagToSet(req) : req' = req (-) One(x)
       /\ (\E kind \in {"get", "post", "delete"} : Connects(kind)) =>
             /\ db' = db
             /\ last' = last
      ]_vars

\* an insert has failed at execution while another request is in flight and
\* the table holds rows
C10_Witness ==
    /\ last.kind = "post"
    /\ last.fault = "execute"
    /\ InFlight > 0
    /\ db.rows # {}
====
